---------------------------- MODULE Spec2Model ----------------------------
(***************************************************************************)
(* Verification model of the mini-cloud (neighbourhood) engine of ogtools: *)
(*   mini_cloud.py     compute_mini_cloud, compute_mini_cloud_radius,      *)
(*                     export_mini_cloud, import_mini_cloud                *)
(*   boolean_creek.py  compute_boolean_creek                               *)
(*                                                                         *)
(* Node ids are 0-based as in the source; TLA+ sequences are 1-based, so   *)
(* the entry of node id k is element k + 1 of a sequence.  Coordinates,    *)
(* elevations and thresholds are integers (exact arithmetic); numpy's      *)
(* fixed-width integers and the bytes of the binary files are modelled     *)
(* with their width.                                                       *)
(***************************************************************************)
EXTENDS Integers, Sequences, FiniteSets, TLC

VARIABLES
  pc,        \* position of the running call
  longw,     \* bytes of numpy's default integer (C long): 4 or 8, fixed by the platform
  x, y,      \* node coordinates
  tri,       \* connectivity table: sequence of 3-tuples of node ids
  r, nmax,   \* radius and optional cap of compute_mini_cloud_radius (None: no cap)
  cloud,     \* list of mini-clouds: sequence (one per node) of sequences of node ids
  file,      \* content of the binary file: sequence of bytes
  imported,  \* value returned by import_mini_cloud
  \* compute_boolean_creek: its arguments ...
  z,         \* elevations: [ndim, nt, v], v[node][time step]
  hc,        \* threshold residual
  radius,    \* None or a list of radii
  cloud_fn,  \* None or a list of file names
  combine_radius_logical, combine_time_logical, linear_detrend_logical,
  fs,        \* the files: name -> None (no such file) or the bytes it holds
  \* ... and its local variables
  iradius,   \* number of radii processed (index i of the loop "for each radius")
  creek,     \* the result being accumulated
  tmp_1,     \* boolean creek of the last radius processed (median analysis)
  tmp_2,     \* detrended boolean creek of the last radius processed
  \* history variable: cloud, tmp_1 and tmp_2 of every pass made (the code
  \* overwrites them at the next pass)
  passes,
  \* gaussian_curvature_p1
  field,     \* f: field value of each node
  coefs,     \* coef of each node processed (the quadratic approximation fitted)
  curvature, \* k: gaussian curvature of each node processed
  \* the loops over the nodes of one pass of compute_boolean_creek
  median,    \* the array median: one row per node, one entry per time step
  zl,        \* the array zl (<<>>: not defined yet)
  jnode      \* index j of the running loop

creekVars == <<z, hc, radius, cloud_fn, combine_radius_logical,
               combine_time_logical, linear_detrend_logical, fs, iradius, creek,
               tmp_1, tmp_2, passes>>

curvVars == <<field, coefs, curvature>>

loopVars == <<median, zl, jnode>>

vars ==
  <<pc, longw, x, y, tri, r, nmax, cloud, file, imported, creekVars, curvVars, loopVars>>

---------------------------------------------------------------------------
(* Bounds of the model *)

\* largest number of mini-clouds for which every valid index is enumerated
MaxStoreNodes == 2
\* largest number of nodes / triangles of the meshes given to compute_mini_cloud
MaxNode == 3
MaxTri == 2
\* compute_mini_cloud_radius: largest number of nodes, coordinate, radius and cap
MaxRNode == 2
MaxCoord == 1
MaxRadius == 1
MaxCap == 2

---------------------------------------------------------------------------
(* Helpers *)

\* compute_boolean_creek is not running
CreekIdle ==
  /\ z = <<>> /\ hc = 0 /\ radius = <<>> /\ cloud_fn = <<>>
  /\ combine_radius_logical = TRUE /\ combine_time_logical = FALSE
  /\ linear_detrend_logical = FALSE
  /\ fs = <<>> /\ iradius = 0 /\ creek = <<>> /\ tmp_1 = <<>> /\ tmp_2 = <<>>
  /\ passes = <<>>

\* gaussian_curvature_p1 is not running
CurvIdle == field = <<>> /\ coefs = <<>> /\ curvature = <<>>

LoopIdle == median = <<>> /\ zl = <<>> /\ jnode = 0

Range(s) == {s[k] : k \in 1..Len(s)}

NoDup(s) == \A a, b \in 1..Len(s) : a # b => s[a] # s[b]

Min(a, b) == IF a < b THEN a ELSE b

\* the optional argument nmax: None, or a number
None == <<>>
Some(n) == <<n>>
Val(nm) == nm[1]

\* all sequences over S of length at most n
SeqsUpTo(S, n) == UNION {[1..k -> S] : k \in 0..n}

\* concatenation of ss[lo], ..., ss[hi]
RECURSIVE Cat(_, _, _)
Cat(ss, lo, hi) ==
  IF lo > hi THEN <<>>
  ELSE IF lo = hi THEN ss[lo]
  ELSE LET mid == (lo + hi) \div 2
       IN Cat(ss, lo, mid) \o Cat(ss, mid + 1, hi)

---------------------------------------------------------------------------
(* Fixed-width integers and their bytes (little endian, two's complement) *)

Int8Max == 127
Int16Max == 32767
Int32Max == 2147483647

\* the "integer type" chosen from a count: its width in bytes
Dtype(n) ==
  IF n <= Int8Max THEN 1
  ELSE IF n <= Int16Max THEN 2
  ELSE IF n <= Int32Max THEN 4
  ELSE 8

Pow256(k) == IF k = 0 THEN 1 ELSE IF k = 1 THEN 256 ELSE IF k = 2 THEN 65536 ELSE 16777216

\* the w bytes of integer v (every value of the model fits 32 bits, so the
\* bytes above the fourth are the sign extension)
ToBytes(v, w) ==
  [k \in 1..w |-> IF k <= 4 THEN (v \div Pow256(k - 1)) % 256
                  ELSE IF v < 0 THEN 255 ELSE 0]

\* the integer held by the bytes b (width Len(b)); of an 8-byte item the
\* low four bytes decide the value, the others being its sign extension
FromBytes(b) ==
  LET m == Min(Len(b), 4)
      top == IF b[m] >= 128 THEN b[m] - 256 ELSE b[m]
      low[k \in 0..(m - 1)] == IF k = 0 THEN 0 ELSE low[k - 1] + b[k] * Pow256(k - 1)
  IN top * Pow256(m - 1) + low[m - 1]

\* np.array(v, dtype): the value v stored with width w (wraps around)
Cast(v, w) == FromBytes(ToBytes(v, w))

CastSeq(s, w) == [k \in 1..Len(s) |-> Cast(s[k], w)]

---------------------------------------------------------------------------
(* mini_cloud.export_mini_cloud *)

\* width of the header: np.array(ncloud, dtype = int)
HeaderWidth(lw) == lw

\* (mutant) the writer chooses the integer type by the unsigned limits
ExportWidth_Unsigned(ncloud) ==
  IF ncloud <= 2 * Int8Max + 1 THEN 1 ELSE IF ncloud <= 2 * Int16Max + 1 THEN 2 ELSE 4

\* width of every per-node count and node id written
ExportWidth(ncloud) == Dtype(ncloud)

\* one mini-cloud: its number of nodes, then its node indices
ExportRecord(c, w) ==
  ToBytes(Len(c), w) \o Cat([k \in 1..Len(c) |-> ToBytes(c[k], w)], 1, Len(c))

ExportBytes(c, lw) ==
  LET ncloud == Len(c)
      w == ExportWidth(ncloud)
  IN ToBytes(ncloud, HeaderWidth(lw))
       \o Cat([i \in 1..ncloud |-> ExportRecord(c[i], w)], 1, ncloud)

---------------------------------------------------------------------------
(* mini_cloud.import_mini_cloud *)

\* np.fromfile(file, dtype, count) at byte position pos: the items read, as
\* many as the file still holds and at most count (count < 0: all of them)
AvailItems(f, pos, w) == IF pos > Len(f) THEN 0 ELSE (Len(f) - pos + 1) \div w

FromFile(f, pos, w, count) ==
  LET avail == AvailItems(f, pos, w)
      n == IF count < 0 THEN avail ELSE Min(count, avail)
  IN [k \in 1..n |-> FromBytes([b \in 1..w |-> f[pos + (k - 1) * w + b - 1]])]

\* (mutant) the reader compares with < where the writer compares with <=
ImportWidth_Strict(ncloud) ==
  IF ncloud < Int8Max THEN 1 ELSE IF ncloud < Int16Max THEN 2 ELSE 4

\* width with which the reader reads the per-node counts and node ids
ImportWidth(ncloud) == Dtype(ncloud)

\* one pass of the loop "for each mini-cloud": st = [pos, acc, ok];
\* ok turns FALSE when the count cannot be read ([0] of an empty array)
ReadRecord(f, st, w) ==
  LET cnt == FromFile(f, st.pos, w, 1)
  IN IF Len(cnt) = 0 THEN [pos |-> st.pos, acc |-> st.acc, ok |-> FALSE]
     ELSE LET items == FromFile(f, st.pos + w, w, cnt[1])
          IN [pos |-> st.pos + w + w * Len(items),
              acc |-> Append(st.acc, items), ok |-> TRUE]

\* the loop "for i in range(ncloud)": `left` passes from state st, made in
\* runs of `unit` passes (a run of one pass is ReadRecord; a longer run is
\* made of BlockLen shorter ones), the records of the runs being concatenated
BlockLen == 32

RECURSIVE ImportLoop(_, _, _, _, _)
ImportLoop(f, st, w, left, unit) ==
  IF left = 0 \/ ~st.ok THEN st
  ELSE LET b == Min(left, unit)
           from == [pos |-> st.pos, acc |-> <<>>, ok |-> TRUE]
           run == IF unit = 1 THEN ReadRecord(f, from, w)
                  ELSE ImportLoop(f, from, w, b, unit \div BlockLen)
       IN ImportLoop(f, [pos |-> run.pos, acc |-> st.acc \o run.acc, ok |-> run.ok],
                     w, left - b, unit)

\* the outcome of import_mini_cloud: ok and the list of mini-clouds returned,
\* or not ok when the call raises ([0] of an empty array: no header or no
\* count left to read)
ImportBytes(f, lw) ==
  LET hdr == FromFile(f, 1, HeaderWidth(lw), 1)
  IN IF Len(hdr) = 0 THEN [ok |-> FALSE, cloud |-> <<>>]
     ELSE LET ncloud == hdr[1]
              st == ImportLoop(f, [pos |-> HeaderWidth(lw) + 1, acc |-> <<>>, ok |-> TRUE],
                               ImportWidth(ncloud), IF ncloud < 0 THEN 0 ELSE ncloud,
                               BlockLen * BlockLen)
          IN [ok |-> st.ok, cloud |-> IF st.ok THEN st.acc ELSE <<>>]

---------------------------------------------------------------------------
(* Export then import of a list of mini-clouds (mini_cloud.py) *)

\* every valid index of n nodes: one duplicate-free list of ids in 0..n-1 per node
ValidLists(n) == {s \in SeqsUpTo(0..(n - 1), n) : NoDup(s)}
ValidIndexes(n) == [1..n -> ValidLists(n)]

\* indexes at the counts where the integer type changes
WidthCounts == {Int8Max - 1, Int8Max, Int8Max + 1, Int16Max + 1}
Shapes == {"self", "ring", "all", "desc"}
ShapedIndex(n, s) ==
  [i \in 1..n |->
     CASE s = "self" -> <<i - 1>>
       [] s = "ring" -> <<i - 1, i % n>>
       [] s = "all" -> [k \in 1..n |-> k - 1]
       [] s = "desc" -> [k \in 1..n |-> n - k]]
ShapedIndexes ==
  {ShapedIndex(n, s) : n \in {c \in WidthCounts : c <= Int8Max + 1}, s \in Shapes}
    \cup {ShapedIndex(n, "ring") : n \in {c \in WidthCounts : c > Int8Max + 1}}

StoreClouds == UNION {ValidIndexes(n) : n \in 0..MaxStoreNodes} \cup ShapedIndexes

StoreInit ==
  /\ pc = "start"
  /\ longw \in {4, 8}
  /\ cloud \in StoreClouds
  /\ file = <<>>
  /\ imported = <<>>
  /\ x = <<>> /\ y = <<>> /\ tri = <<>> /\ r = 0 /\ nmax = None
  /\ CreekIdle /\ CurvIdle /\ LoopIdle

\* export_mini_cloud(cloud, filename)
Export ==
  /\ pc = "start"
  /\ file' = ExportBytes(cloud, longw)
  /\ pc' = "exported"
  /\ UNCHANGED <<longw, x, y, tri, r, nmax, cloud, imported, creekVars, curvVars, loopVars>>

\* import_mini_cloud(filename)
Import ==
  /\ pc = "exported"
  /\ imported' = ImportBytes(file, longw).cloud
  /\ pc' = IF ImportBytes(file, longw).ok THEN "imported" ELSE "raised"
  /\ UNCHANGED <<longw, x, y, tri, r, nmax, cloud, file, creekVars, curvVars, loopVars>>

StoreNext == Export \/ Import

SpecStore == StoreInit /\ [][StoreNext]_vars

---------------------------------------------------------------------------
(* C1: for every valid index, import_mini_cloud of the file written by      *)
(* export_mini_cloud returns as many mini-clouds as were exported and, for  *)
(* every node, the same set of node ids; in particular at the counts 1,     *)
(* 126, 128 and 32768 (the integer width changes after 127 and 32767).      *)
C1_RoundTrip ==
  pc \in {"imported", "raised"} =>
    /\ pc = "imported"
    /\ Len(imported) = Len(cloud)
    /\ \A i \in 1..Len(cloud) : Range(imported[i]) = Range(cloud[i])

\* a round trip completed for an index of 128 mini-clouds (the first count
\* written with 16-bit items), every mini-cloud holding two ids
C1_Witness ==
  /\ pc = "imported"
  /\ Len(cloud) = Int8Max + 1
  /\ cloud[Int8Max + 1] = <<Int8Max, 0>>
  /\ imported = cloud

---------------------------------------------------------------------------
(* mini_cloud.compute_mini_cloud *)

\* (mutant) a node is not added to its own mini-cloud
AddNode_NoSelf(c, j, k) ==
  IF j = k \/ j \in Range(c[k + 1]) THEN c ELSE [c EXCEPT ![k + 1] = Append(@, j)]

\* (mutant) a node is added without looking whether it is already in
AddNode_Always(c, j, k) == [c EXCEPT ![k + 1] = Append(@, j)]

\* "add node j in mini-cloud k if not already in"
AddNode(c, j, k) ==
  IF j \in Range(c[k + 1]) THEN c ELSE [c EXCEPT ![k + 1] = Append(@, j)]

\* (mutant) the inner loop starts at the vertex of the outer loop: a vertex
\* is added to the mini-clouds of the vertices that follow it only
RECURSIVE AddPairs_Forward(_, _, _)
AddPairs_Forward(c, t, p) ==
  IF p > 9 \/ c = <<>> THEN c
  ELSE AddPairs_Forward(IF (p - 1) \div 3 <= (p - 1) % 3
                        THEN AddNode(c, t[((p - 1) \div 3) + 1], t[((p - 1) % 3) + 1])
                        ELSE c,
                        t, p + 1)

\* the two nested loops over the vertices of triangle t: p numbers the
\* ordered pairs (j, k), j in the outer loop and k in the inner one (a list
\* of no mini-cloud has no node to add)
RECURSIVE AddPairs(_, _, _)
AddPairs(c, t, p) ==
  IF p > 9 \/ c = <<>> THEN c
  ELSE AddPairs(AddNode(c, t[((p - 1) \div 3) + 1], t[((p - 1) % 3) + 1]), t, p + 1)

\* the loop over the triangles, from triangle i on
RECURSIVE AddTriangles(_, _, _)
AddTriangles(c, tt, i) ==
  IF i > Len(tt) \/ c = <<>> THEN c ELSE AddTriangles(AddPairs(c, tt[i], 1), tt, i + 1)

ComputeMiniCloud(xx, yy, tt) ==
  LET nnode == Len(xx)
      w == Dtype(nnode)
      lists == AddTriangles([i \in 1..nnode |-> <<>>], tt, 1)
  IN [i \in 1..nnode |-> CastSeq(lists[i], w)]

\* the meshes: n nodes, up to MaxTri triangles whose vertices are node ids
Triangles(n) == [1..3 -> 0..(n - 1)]

TopoInit ==
  /\ pc = "start"
  /\ \E n \in 0..MaxNode :
       /\ x = [i \in 1..n |-> i - 1]
       /\ y = [i \in 1..n |-> 0]
       /\ tri \in SeqsUpTo(Triangles(n), MaxTri)
  /\ cloud = <<>>
  /\ longw = 8 /\ r = 0 /\ nmax = None /\ file = <<>> /\ imported = <<>>
  /\ CreekIdle /\ CurvIdle /\ LoopIdle

\* cloud = compute_mini_cloud(x, y, tri)
TopoCall ==
  /\ pc = "start"
  /\ cloud' = ComputeMiniCloud(x, y, tri)
  /\ pc' = "done"
  /\ UNCHANGED <<longw, x, y, tri, r, nmax, file, imported, creekVars, curvVars, loopVars>>

TopoNext == TopoCall

SpecTopo == TopoInit /\ [][TopoNext]_vars

\* the ids sharing at least one triangle with node id k
ShareTriangle(tt, k) ==
  UNION {Range(tt[i]) : i \in {a \in 1..Len(tt) : k \in Range(tt[a])}}

(* C2: compute_mini_cloud returns for each node k exactly the set of node   *)
(* ids that appear in at least one triangle that also contains k.           *)
C2_SharedTriangle ==
  pc = "done" =>
    /\ Len(cloud) = Len(x)
    /\ \A k \in 0..(Len(x) - 1) : Range(cloud[k + 1]) = ShareTriangle(tri, k)

\* the builder has run on two triangles sharing a vertex: node 0 got both
\* other nodes of its two triangles, node 1 did not get node 2
C2_Witness ==
  /\ pc = "done"
  /\ Len(x) = 3
  /\ tri = <<(<<0, 1, 1>>), (<<2, 0, 0>>)>>
  /\ Range(cloud[1]) = {0, 1, 2}
  /\ Range(cloud[2]) = {0, 1}

(* C3: every neighbourhood returned by compute_mini_cloud contains the      *)
(* node's own id and only ids in 0..nodeCount-1, for all meshes, also those *)
(* in which some node is referenced by no triangle.                         *)
C3_SelfAndRange ==
  pc = "done" =>
    \A k \in 0..(Len(x) - 1) :
      /\ k \in Range(cloud[k + 1])
      /\ Range(cloud[k + 1]) \subseteq 0..(Len(x) - 1)

---------------------------------------------------------------------------
(* mini_cloud.compute_mini_cloud_radius *)

\* "data within square bounding box of length (2r)": tmp_j[j] for node id i
InBox(xx, yy, i, rr, j) ==
  /\ xx[j + 1] >= xx[i + 1] - rr
  /\ xx[j + 1] <= xx[i + 1] + rr
  /\ yy[j + 1] >= yy[i + 1] - rr
  /\ yy[j + 1] <= yy[i + 1] + rr

\* d2: zero outside the box, the squared distance to node i inside it
D2(xx, yy, i, rr, j) ==
  IF InBox(xx, yy, i, rr, j)
  THEN (xx[j + 1] - xx[i + 1]) * (xx[j + 1] - xx[i + 1])
         + (yy[j + 1] - yy[i + 1]) * (yy[j + 1] - yy[i + 1])
  ELSE 0

\* (mutant) the circle test is left out
InCircle_BoxOnly(xx, yy, i, rr, j) == InBox(xx, yy, i, rr, j)

\* (mutant) the circle test compares the wrong way round
InCircle_Outside(xx, yy, i, rr, j) ==
  InBox(xx, yy, i, rr, j) /\ D2(xx, yy, i, rr, j) >= rr * rr

\* (mutant) the circle test is strict
InCircle_Strict(xx, yy, i, rr, j) ==
  InBox(xx, yy, i, rr, j) /\ D2(xx, yy, i, rr, j) < rr * rr

\* "data within circle of radius r": tmp_j *= (d2 <= r * r)
InCircle(xx, yy, i, rr, j) ==
  InBox(xx, yy, i, rr, j) /\ D2(xx, yy, i, rr, j) <= rr * rr

\* np.argwhere(tmp_j): the ids of a set in increasing order
RECURSIVE Ascending(_)
Ascending(S) ==
  IF S = {} THEN <<>>
  ELSE LET m == CHOOSE a \in S : \A b \in S : a <= b
       IN <<m>> \o Ascending(S \ {m})

\* j before the random selection
RadiusIds(xx, yy, i, rr) ==
  CastSeq(Ascending({j \in 0..(Len(xx) - 1) : InCircle(xx, yy, i, rr, j)}),
          Dtype(Len(xx)))

\* (mutant) the random selection is also made when len(j) equals nmax
TooMany_OrEqual(len, nm) == (nm = None \/ len >= Val(nm)) /\ nm # None

\* "if len(j) > nmax and nmax is not None" (an int is greater than None)
TooMany(len, nm) == (nm = None \/ len > Val(nm)) /\ nm # None

\* j[np.random.randint(0, len(j), nmax)]: every outcome of the draw
RandomSelections(j, n) == {[k \in 1..n |-> j[pick[k]]] : pick \in [1..n -> 1..Len(j)]}

\* the mini-clouds node id i may get
NodeClouds(xx, yy, i, rr, nm) ==
  LET j == RadiusIds(xx, yy, i, rr)
  IN IF TooMany(Len(j), nm) THEN RandomSelections(j, Val(nm)) ELSE {j}

\* the lists of mini-clouds the call may return, for the nodes 0..n-1
RECURSIVE RadiusClouds(_, _, _, _, _)
RadiusClouds(xx, yy, rr, nm, n) ==
  IF n = 0 THEN {<<>>}
  ELSE {Append(c, e) : c \in RadiusClouds(xx, yy, rr, nm, n - 1),
                       e \in NodeClouds(xx, yy, n - 1, rr, nm)}

ComputeMiniCloudRadius(xx, yy, rr, nm) == RadiusClouds(xx, yy, rr, nm, Len(xx))

Coords == 0..MaxCoord
Radii == (-1)..MaxRadius
Caps == {None} \cup {Some(n) : n \in 0..MaxCap}

RadiusInit ==
  /\ pc = "start"
  /\ \E n \in 0..MaxRNode : x \in [1..n -> Coords] /\ y \in [1..n -> Coords]
  /\ r \in Radii
  /\ nmax \in Caps
  /\ cloud = <<>>
  /\ longw = 8 /\ tri = <<>> /\ file = <<>> /\ imported = <<>>
  /\ CreekIdle /\ CurvIdle /\ LoopIdle

\* cloud = compute_mini_cloud_radius(x, y, r, nmax)
RadiusCall ==
  /\ pc = "start"
  /\ cloud' \in ComputeMiniCloudRadius(x, y, r, nmax)
  /\ pc' = "done"
  /\ UNCHANGED <<longw, x, y, tri, r, nmax, file, imported, creekVars, curvVars, loopVars>>

RadiusNext == RadiusCall

SpecRadius == RadiusInit /\ [][RadiusNext]_vars

\* squared distance between node ids i and j
Dist2(xx, yy, i, j) ==
  (xx[j + 1] - xx[i + 1]) * (xx[j + 1] - xx[i + 1])
    + (yy[j + 1] - yy[i + 1]) * (yy[j + 1] - yy[i + 1])

\* the ids within squared distance r^2 of node id i
CircleSet(xx, yy, i, rr) == {j \in 0..(Len(xx) - 1) : Dist2(xx, yy, i, j) <= rr * rr}

\* the ids within distance r of node id i (none when r is negative)
ExactSet(xx, yy, i, rr) == {j \in CircleSet(xx, yy, i, rr) : rr >= 0}

C5_Monotone ==
  (pc = "done" /\ nmax = None) =>
    \A r2 \in Radii : r < r2 =>
      \A c2 \in ComputeMiniCloudRadius(x, y, r2, None) :
        \A i \in 0..(Len(x) - 1) : Range(cloud[i + 1]) \subseteq Range(c2[i + 1])

\* a call with radius 0 whose neighbourhoods are strictly smaller than those
\* of radius 1
C5_Witness ==
  /\ pc = "done" /\ nmax = None /\ r = 0
  /\ x = <<0, 1>> /\ y = <<0, 0>>
  /\ cloud = <<(<<0>>), (<<1>>)>>
  /\ <<(<<0, 1>>), (<<0, 1>>)>> \in ComputeMiniCloudRadius(x, y, 1, None)

(* C6: with a cap nmax, a node whose exact-radius set has more than nmax    *)
(* ids gets exactly nmax entries, all drawn from that set; a node whose     *)
(* exact-radius set has at most nmax ids gets that set unchanged; no        *)
(* returned neighbourhood has more than nmax entries.                       *)
C6_Cap ==
  (pc = "done" /\ nmax # None) =>
    \A i \in 0..(Len(x) - 1) :
      LET exact == ExactSet(x, y, i, r)
          got == cloud[i + 1]
      IN /\ Len(got) <= Val(nmax)
         /\ Cardinality(exact) > Val(nmax) =>
              (Len(got) = Val(nmax) /\ Range(got) \subseteq exact)
         /\ Cardinality(exact) <= Val(nmax) =>
              (Range(got) = exact /\ Len(got) = Cardinality(exact))

\* a capped call in which node 0 has two ids in its radius and got one of them
C6_Witness ==
  /\ pc = "done" /\ nmax = Some(1) /\ r = 1
  /\ x = <<0, 1>> /\ y = <<0, 0>>
  /\ cloud[1] = <<1>>

---------------------------------------------------------------------------
(* boolean_creek.compute_boolean_creek: arguments and initialization *)

\* the optional arguments radius and cloud_fn: None, a single value e, or a
\* list s of values
Scalar(e) == Some([list |-> FALSE, v |-> <<e>>])
List(s) == Some([list |-> TRUE, v |-> s])

\* "radius as a list", "cloud_fn as a list"
AsList(arg) == IF arg # None /\ ~Val(arg).list THEN List(Val(arg).v) ELSE arg

\* "number of radius and/or mini-cloud file names"
Nr(rad, fn) == IF rad # None THEN Len(Val(rad).v) ELSE Len(Val(fn).v)

\* "len(radius) is not len(cloud_fn)": the two lengths are compared as
\* objects; equal lengths are the same object up to SmallIntMax only
SmallIntMax == 256
LenIsNot(a, b) == a # b \/ a > SmallIntMax

\* the elevations z = [ndim, m, v]: ndim = 1 is an array of shape (n), whose
\* value of node id j is v[j + 1][1]; ndim = 2 an array of shape (n, m),
\* whose value of node id j at time step t is v[j + 1][t]
\* "number of time steps"
Nt(zz) == IF zz.ndim = 1 THEN 1 ELSE zz.m

\* "initialize boolean creek"
InitCreek(nnode, zz, cr, ct) ==
  IF cr
  THEN IF ct THEN [j \in 1..nnode |-> 0]
       ELSE [j \in 1..nnode |-> [t \in 1..Nt(zz) |-> 0]]
  ELSE <<>>

\* the checks of the optional input and of the combine options end the call
\* (sys.exit)
\* (mutant) the combine options are not checked
Exits_NoCombineCheck(rad, fn, cr, ct) ==
  \/ rad # None /\ fn # None /\ LenIsNot(Len(Val(rad).v), Len(Val(fn).v))
  \/ rad = None /\ fn = None

\* "check optional input", "check combine options": sys.exit() is called
Exits(rad, fn, cr, ct) ==
  \/ rad # None /\ fn # None /\ LenIsNot(Len(Val(rad).v), Len(Val(fn).v))
  \/ rad = None /\ fn = None
  \/ ct /\ ~cr

---------------------------------------------------------------------------
(* compute_boolean_creek: "compute/import/export mini-clouds" *)

\* os.path.isfile
IsFile(files, name) == files[name] # None

\* the mini-clouds of pass i, or not ok when the pass raises: the two calls
\* of compute_mini_cloud_radius name r, which is not defined (NameError);
\* import_mini_cloud of a missing file raises IOError
CloudSource(rad, fn, files, i, lw) ==
  LET raised == [ok |-> FALSE, cloud |-> <<>>]
  IN IF rad # None /\ fn # None
     THEN IF IsFile(files, Val(fn).v[i + 1])
          THEN ImportBytes(Val(files[Val(fn).v[i + 1]]), lw)
          ELSE raised
     ELSE IF fn = None THEN raised
     ELSE IF IsFile(files, Val(fn).v[i + 1])
          THEN ImportBytes(Val(files[Val(fn).v[i + 1]]), lw)
          ELSE raised

---------------------------------------------------------------------------
(* compute_boolean_creek: "compute boolean creek" (median analysis) *)

\* np.median sorts the values
RECURSIVE Insert(_, _)
Insert(s, e) ==
  IF s = <<>> THEN <<e>>
  ELSE IF e <= Head(s) THEN <<e>> \o s
  ELSE <<Head(s)>> \o Insert(Tail(s), e)

RECURSIVE Sort(_)
Sort(s) == IF s = <<>> THEN <<>> ELSE Insert(Sort(Tail(s)), Head(s))

\* np.median(s): nan for no value at all, else the middle value, or the mean
\* of the two middle values; `twice` is two times the median
NpMedian(s) ==
  LET o == Sort(s)
      k == Len(s)
  IN IF k = 0 THEN [nan |-> TRUE, twice |-> 0]
     ELSE [nan |-> FALSE,
           twice |-> IF k % 2 = 1 THEN 2 * o[(k + 1) \div 2]
                     ELSE o[k \div 2] + o[(k \div 2) + 1]]

\* z[cloud[j]] at time step t
ZCloud(zz, c, t) == [k \in 1..Len(c) |-> zz.v[c[k] + 1][t]]

\* (mutant) the residual is compared with >=
ResGreater_OrEqual(med, zj, h) == ~med.nan /\ med.twice - 2 * zj >= 2 * h

\* res > hc with res = median - z (a comparison with nan is False)
ResGreater(med, zj, h) == ~med.nan /\ med.twice - 2 * zj > 2 * h

\* tmp_1 = (median - z > hc)
Tmp1(zz, cl, h) ==
  [j \in 1..Len(zz.v) |->
     [t \in 1..Nt(zz) |-> ResGreater(NpMedian(ZCloud(zz, cl[j], t)), zz.v[j][t], h)]]

---------------------------------------------------------------------------
(* compute_boolean_creek: "compute detrent boolean creek" *)

RECURSIVE SumSeq(_)
SumSeq(s) == IF s = <<>> THEN 0 ELSE Head(s) + SumSeq(Tail(s))

\* vectors of 3 integers and 3 x 3 matrices of integers (tuples of rows)
Dot(u, w) == u[1] * w[1] + u[2] * w[2] + u[3] * w[3]
VecScale(k, u) == <<k * u[1], k * u[2], k * u[3]>>
VecSub(u, w) == <<u[1] - w[1], u[2] - w[2], u[3] - w[3]>>
Col(p, f) == <<p[1][f], p[2][f], p[3][f]>>
VecMat(u, q) == <<Dot(u, Col(q, 1)), Dot(u, Col(q, 2)), Dot(u, Col(q, 3))>>
MatMul(p, q) == <<VecMat(p[1], q), VecMat(p[2], q), VecMat(p[3], q)>>
MatVec(p, u) == <<Dot(p[1], u), Dot(p[2], u), Dot(p[3], u)>>
MatScale(k, p) == <<VecScale(k, p[1]), VecScale(k, p[2]), VecScale(k, p[3])>>
MatSub(p, q) == <<VecSub(p[1], q[1]), VecSub(p[2], q[2]), VecSub(p[3], q[3])>>
\* determinant of p without row e and column f
Others(e) == IF e = 1 THEN <<2, 3>> ELSE IF e = 2 THEN <<1, 3>> ELSE <<1, 2>>
Minor(p, e, f) ==
  LET rows == Others(e)
      cols == Others(f)
  IN p[rows[1]][cols[1]] * p[rows[2]][cols[2]] - p[rows[1]][cols[2]] * p[rows[2]][cols[1]]
Sign(e, f) == IF (e + f) % 2 = 0 THEN 1 ELSE -1
AdjugateRow(p, e) ==
  <<Sign(e, 1) * Minor(p, 1, e), Sign(e, 2) * Minor(p, 2, e), Sign(e, 3) * Minor(p, 3, e)>>
Adjugate(p) == <<AdjugateRow(p, 1), AdjugateRow(p, 2), AdjugateRow(p, 3)>>
Det(p) == p[1][1] * Minor(p, 1, 1) - p[1][2] * Minor(p, 1, 2) + p[1][3] * Minor(p, 1, 3)
Trace(p) == p[1][1] + p[2][2] + p[3][3]

\* "build linear system": the rows (x, y, 1) of the nodes of mini-cloud c
LinearSystem(xx, yy, c) == [k \in 1..Len(c) |-> <<xx[c[k] + 1], yy[c[k] + 1], 1>>]

\* the normal equations of the system: a^T a and a^T b
Moment(a, b) ==
  <<SumSeq([k \in 1..Len(a) |-> a[k][1] * b[k]]),
    SumSeq([k \in 1..Len(a) |-> a[k][2] * b[k]]),
    SumSeq([k \in 1..Len(a) |-> a[k][3] * b[k]])>>
Column(a, f) == [k \in 1..Len(a) |-> a[k][f]]
Gram(a) == <<Moment(a, Column(a, 1)), Moment(a, Column(a, 2)), Moment(a, Column(a, 3))>>

\* the pseudo-inverse num / den of the symmetric positive semi-definite g,
\* by its rank (3: the inverse; 2 and 1: from the coefficients c1 and c2 of
\* the characteristic polynomial)
PseudoInverseOf(g, det, c1, c2) ==
  IF det # 0 THEN [num |-> Adjugate(g), den |-> det]
  ELSE IF c2 # 0
  THEN [num |-> MatSub(MatScale(c1 * c1 - c2, g), MatScale(c1, MatMul(g, g))),
        den |-> c2 * c2]
  ELSE IF c1 # 0 THEN [num |-> g, den |-> c1 * c1]
  ELSE [num |-> g, den |-> 1]

PseudoInverse(g) ==
  PseudoInverseOf(g, Det(g), Trace(g), Minor(g, 1, 1) + Minor(g, 2, 2) + Minor(g, 3, 3))

\* scipy.linalg.lstsq(a, b, lapack_driver = 'gelsy'): the least-squares
\* solution of minimum norm, coef = num / den, in exact arithmetic
Solve(pinv, moment) == [num |-> MatVec(pinv.num, moment), den |-> pinv.den]
Lstsq(a, b) == Solve(PseudoInverse(Gram(a)), Moment(a, b))

\* coef[0] * x[j] + coef[1] * y[j] + coef[2]
Trend(coef, xj, yj) ==
  [num |-> coef.num[1] * xj + coef.num[2] * yj + coef.num[3], den |-> coef.den,
   fit |-> TRUE]

\* "linear detrent elevation" of node id j at time step t, as the loop "for
\* each mini-cloud" leaves it: zl = np.zeros(z.shape) is executed in every
\* pass, so only the entry of the node processed last holds a fit
Zl(xx, yy, zz, cl, j, t) ==
  IF j = Len(xx) - 1
  THEN Trend(Lstsq(LinearSystem(xx, yy, cl[j + 1]), ZCloud(zz, cl[j + 1], t)),
             xx[j + 1], yy[j + 1])
  ELSE [num |-> 0, den |-> 1, fit |-> FALSE]

\* np.median(c - zl[j]) - z[j] for the elevations c of the mini-cloud, times
\* 2 * den
Residual(med, trend, zj) ==
  [nan |-> med.nan, value |-> med.twice - 2 * trend.den * zj, den |-> trend.den,
   fit |-> trend.fit]
Detrended(c, trend, zj) ==
  Residual(NpMedian([k \in 1..Len(c) |-> trend.den * c[k] - trend.num]), trend, zj)
Res2(xx, yy, zz, cl, j, t) ==
  Detrended(ZCloud(zz, cl[j + 1], t), Zl(xx, yy, zz, cl, j, t), zz.v[j + 1][t])

\* the values (res > hc) may take: the fit is computed in floating point, so
\* when its exact residual equals hc the comparison may turn out either way
Greater(res, h) ==
  IF res.nan THEN {FALSE}
  ELSE IF res.value > 2 * res.den * h THEN {TRUE}
  ELSE IF res.value < 2 * res.den * h THEN {FALSE}
  ELSE IF res.fit THEN BOOLEAN ELSE {FALSE}

\* the values tmp_2[j, t] may take
Tmp2Flags(xx, yy, zz, cl, h, j, t) == Greater(Res2(xx, yy, zz, cl, j, t), h)

\* the rows tmp_2[j, :] may be, up to time step t
RECURSIVE Tmp2Rows(_, _, _, _, _, _, _)
Tmp2Rows(xx, yy, zz, cl, h, j, t) ==
  IF t = 0 THEN {<<>>}
  ELSE {Append(row, flag) : row \in Tmp2Rows(xx, yy, zz, cl, h, j, t - 1),
                            flag \in Tmp2Flags(xx, yy, zz, cl, h, j, t)}

\* the arrays tmp_2 may be, for the nodes 0..n-1
RECURSIVE Tmp2Arrays(_, _, _, _, _, _)
Tmp2Arrays(xx, yy, zz, cl, h, n) ==
  IF n = 0 THEN {<<>>}
  ELSE {Append(arr, row) : arr \in Tmp2Arrays(xx, yy, zz, cl, h, n - 1),
                           row \in Tmp2Rows(xx, yy, zz, cl, h, n - 1, Nt(zz))}

\* the arrays tmp_2 may be: (res > hc), or zeros without detrending
Tmp2(xx, yy, zz, cl, h, detrend) ==
  IF detrend THEN Tmp2Arrays(xx, yy, zz, cl, h, Len(zz.v))
  ELSE {[j \in 1..Len(zz.v) |-> [t \in 1..Nt(zz) |-> FALSE]]}

\* the pass raises: median[j, :] of a 1-D array (IndexError); b[:] = zcloud
\* with b of shape (ncloud) and zcloud of shape (ncloud, 1) unless ncloud is
\* 1 (ValueError); np.sum(..., axis = 1) of a 1-D array
PassRaises(zz, cl, ct, detrend) ==
  \/ zz.ndim = 1 /\ Len(zz.v) > 0
  \/ detrend /\ zz.ndim = 2 /\ Nt(zz) = 1 /\ \E j \in 1..Len(zz.v) : Len(cl[j]) # 1
  \/ ct /\ zz.ndim = 1

---------------------------------------------------------------------------
(* compute_boolean_creek: "combine boolean creeks" *)

\* (mutant) the two flags are added as numbers
TmpAdd_Numbers(p, q) == (IF p THEN 1 ELSE 0) + (IF q THEN 1 ELSE 0)

\* an entry of tmp_1 + tmp_2, the sum of two boolean arrays (a boolean
\* array: logical or), as the number it counts for: True is 1, False is 0
TmpAdd(p, q) == IF p \/ q THEN 1 ELSE 0

\* (mutant) np.any instead of np.sum
SumAxis1_Any(row) == IF \E t \in 1..Len(row) : row[t] > 0 THEN 1 ELSE 0

\* np.sum(..., axis = 1): the sum of a row over the time steps
SumAxis1(row) == SumSeq(row)

\* (mutant) creek = ... instead of creek += ...
PlusEquals_Assign(old, new) == new

\* creek += ...
PlusEquals(old, new) == old + new

\* (mutant) the list keeps the array of the last pass only
ListAppend_Replace(old, new) == <<new>>

\* creek.append(...)
ListAppend(old, new) == Append(old, new)

\* creek after the pass that computed the boolean arrays t1 and t2
Combine(old, t1, t2, cr, ct) ==
  LET both == [j \in 1..Len(t1) |-> [t \in 1..Len(t1[j]) |-> TmpAdd(t1[j][t], t2[j][t])]]
  IN IF cr
     THEN IF ct THEN [j \in 1..Len(old) |-> PlusEquals(old[j], SumAxis1(both[j]))]
          ELSE [j \in 1..Len(old) |->
                  [t \in 1..Len(old[j]) |-> PlusEquals(old[j][t], both[j][t])]]
     ELSE ListAppend(old,
            [j \in 1..Len(both) |-> [t \in 1..Len(both[j]) |-> both[j][t] = 1]])

---------------------------------------------------------------------------
(* The calls of compute_boolean_creek *)

\* size of the largest array of elevations (nodes times time steps), and
\* length of the longest list of radii or of file names
MaxCells == 4
MaxRadii == 2

Elevations == {2, 6}
Thresholds == {1, 2}
FileNames == {"a", "b"}

\* the mesh: node id k lies at (MeshX(k), MeshY(k))
MeshX(k) == k % 2
MeshY(k) == k \div 2

\* the arrays of elevations of n nodes: every array of shape (n, m), and the
\* uniform arrays of shape (n)
Fields(n) ==
  UNION {{[ndim |-> 2, m |-> m, v |-> v] : v \in [1..n -> [1..m -> Elevations]]} :
           m \in {c \in 1..MaxCells : n * c <= MaxCells}}
    \cup {[ndim |-> 1, m |-> 1, v |-> [j \in 1..n |-> <<e>>]] : e \in Elevations}

\* the file of the mini-clouds of radius rr of the mesh
MetricCloud(xx, yy, rr) == CHOOSE c \in ComputeMiniCloudRadius(xx, yy, rr, None) : TRUE
CloudFile(xx, yy, rr, lw) == Some(ExportBytes(MetricCloud(xx, yy, rr), lw))

\* the files: none; "a" alone, holding the mini-clouds of radius 1; or "a"
\* and "b", "b" holding the mini-clouds of radius 2
FileSystems(xx, yy, lw) ==
  {[name \in FileNames |-> None],
   [name \in FileNames |-> IF name = "a" THEN CloudFile(xx, yy, 1, lw) ELSE None],
   [name \in FileNames |->
      IF name = "a" THEN CloudFile(xx, yy, 1, lw) ELSE CloudFile(xx, yy, 2, lw)]}

\* radius and cloud_fn: not given, a single value, or a list of MaxRadii values
RadiusArgs == {None, Scalar(1), List([i \in 1..MaxRadii |-> i])}
CloudFnArgs ==
  {None, Scalar("a"), List([i \in 1..MaxRadii |-> IF i % 2 = 1 THEN "a" ELSE "b"])}

CreekInit ==
  /\ pc = "start"
  /\ longw = 8
  /\ \E n \in 0..MaxCells :
       /\ x = [k \in 1..n |-> MeshX(k - 1)]
       /\ y = [k \in 1..n |-> MeshY(k - 1)]
       /\ z \in Fields(n)
  /\ fs \in FileSystems(x, y, longw)
  /\ hc \in Thresholds
  /\ radius \in RadiusArgs
  /\ cloud_fn \in CloudFnArgs
  /\ combine_radius_logical \in BOOLEAN
  /\ combine_time_logical \in BOOLEAN
  /\ linear_detrend_logical \in BOOLEAN
  /\ iradius = 0 /\ creek = <<>> /\ tmp_1 = <<>> /\ tmp_2 = <<>> /\ passes = <<>>
  /\ cloud = <<>> /\ tri = <<>> /\ r = 0 /\ nmax = None /\ file = <<>> /\ imported = <<>>
  /\ CurvIdle /\ LoopIdle

\* compute_boolean_creek, "initialization": up to the loop over the radii
CreekStart ==
  /\ pc = "start"
  /\ radius' = AsList(radius)
  /\ cloud_fn' = AsList(cloud_fn)
  /\ IF Exits(radius', cloud_fn', combine_radius_logical, combine_time_logical)
     THEN pc' = "exit" /\ creek' = creek
     ELSE /\ pc' = "loop"
          /\ creek' = InitCreek(Len(x), z, combine_radius_logical, combine_time_logical)
  /\ iradius' = 0
  /\ UNCHANGED <<longw, x, y, tri, r, nmax, cloud, file, imported, z, hc,
                 combine_radius_logical, combine_time_logical,
                 linear_detrend_logical, fs, tmp_1, tmp_2, passes, curvVars, loopVars>>

\* one pass of the loop "for each radius"
CreekPass ==
  /\ pc = "loop"
  /\ iradius < Nr(radius, cloud_fn)
  /\ \E src \in {CloudSource(radius, cloud_fn, fs, iradius, longw)} :
        IF ~src.ok \/ PassRaises(z, src.cloud, combine_time_logical, linear_detrend_logical)
        THEN pc' = "raised" /\ UNCHANGED <<cloud, iradius, creek, tmp_1, tmp_2, passes>>
        ELSE /\ pc' = "loop"
             /\ cloud' = src.cloud
             /\ tmp_1' = Tmp1(z, src.cloud, hc)
             /\ tmp_2' \in Tmp2(x, y, z, src.cloud, hc, linear_detrend_logical)
             /\ creek' = Combine(creek, tmp_1', tmp_2', combine_radius_logical,
                                 combine_time_logical)
             /\ iradius' = iradius + 1
             /\ passes' = Append(passes, [cloud |-> cloud', tmp_1 |-> tmp_1',
                                          tmp_2 |-> tmp_2'])
  /\ UNCHANGED <<longw, x, y, tri, r, nmax, file, imported, z, hc, radius, cloud_fn,
                 combine_radius_logical, combine_time_logical,
                 linear_detrend_logical, fs, curvVars, loopVars>>

\* "return boolean creek"
CreekReturn ==
  /\ pc = "loop"
  /\ iradius = Nr(radius, cloud_fn)
  /\ pc' = "done"
  /\ UNCHANGED <<longw, x, y, tri, r, nmax, cloud, file, imported, creekVars, curvVars, loopVars>>

CreekNext == CreekStart \/ CreekPass \/ CreekReturn

SpecCreek == CreekInit /\ [][CreekNext]_vars

---------------------------------------------------------------------------
(* Claims on compute_boolean_creek *)

\* the value of rank idx (from 0) among the elevations at time step t of the
\* nodes of N
OrderStat(zz, N, t, idx) ==
  CHOOSE e \in {zz.v[k + 1][t] : k \in N} :
    /\ Cardinality({k \in N : zz.v[k + 1][t] < e}) <= idx
    /\ Cardinality({k \in N : zz.v[k + 1][t] <= e}) > idx

\* two times the median of the elevations at time step t of the nodes of N
TwiceMedian(zz, N, t) ==
  OrderStat(zz, N, t, (Cardinality(N) - 1) \div 2) + OrderStat(zz, N, t, Cardinality(N) \div 2)

\* median({z[k, t] : k in N}) - z[i, t] > hc
Exceeds(zz, N, i, t, h) == TwiceMedian(zz, N, t) - 2 * zz.v[i + 1][t] > 2 * h

\* the neighbourhood N(i) of node id i in pass k (from 1) of the loop
Neighbours(k, i) == Range(passes[k].cloud[i + 1])

\* a call is in its loop over the radii, or has returned
Running == pc \in {"loop", "done"}

(* C7: in plain mode (no detrending), for every node i, time step t and     *)
(* radius, node i is flagged if and only if                                 *)
(* median({z[j,t] : j in N(i)}) - z[i,t] > hc, with strict inequality.      *)
C7_PlainFlag ==
  (Running /\ ~linear_detrend_logical) =>
    /\ Len(passes) = iradius
    /\ iradius > 0 => tmp_1 = passes[iradius].tmp_1 /\ tmp_2 = passes[iradius].tmp_2
    /\ \A k \in 1..iradius : \A i \in 0..(Len(x) - 1) : \A t \in 1..Nt(z) :
         /\ passes[k].tmp_1[i + 1][t] = Exceeds(z, Neighbours(k, i), i, t, hc)
         /\ ~passes[k].tmp_2[i + 1][t]
         /\ ~combine_radius_logical =>
              creek[k][i + 1][t] = Exceeds(z, Neighbours(k, i), i, t, hc)

\* a plain-mode call has returned the flags of two radii: for the first,
\* node 1 has a residual equal to hc and is not flagged; for the second, a
\* larger one, and is flagged
C7_Witness ==
  /\ pc = "done" /\ ~linear_detrend_logical /\ ~combine_radius_logical
  /\ hc = 2
  /\ z.v = <<(<<6>>), (<<2>>), (<<6>>)>>
  /\ iradius = 2
  /\ Neighbours(1, 1) = {0, 1} /\ Neighbours(2, 1) = {0, 1, 2}
  /\ creek = <<(<<(<<FALSE>>), (<<FALSE>>), (<<FALSE>>)>>),
               (<<(<<FALSE>>), (<<TRUE>>), (<<FALSE>>)>>)>>

\* what the pass just made added to the result for node id i at time step
\* t (without combination in time), and for node id i (with it)
Contribution(i, t) ==
  IF combine_radius_logical THEN creek'[i + 1][t] - creek[i + 1][t]
  ELSE IF creek'[Len(creek')][i + 1][t] THEN 1 ELSE 0
NodeContribution(i) == creek'[i + 1] - creek[i + 1]

\* the flags of the pass just made
EitherFlag(i, t) == IF tmp_1'[i + 1][t] \/ tmp_2'[i + 1][t] THEN 1 ELSE 0

(* C8: with linear_detrend_logical enabled, the result of one radius for    *)
(* each node and time step is the logical OR of the plain-mode flag and the *)
(* detrend-mode flag: it counts 1 when both methods flag the node (not 2),  *)
(* 1 when one of them does, and 0 when neither does.                        *)
C8_LogicalOr ==
  [][(pc = "loop" /\ pc' = "loop" /\ linear_detrend_logical) =>
       \A i \in 0..(Len(x) - 1) :
         IF combine_time_logical
         THEN NodeContribution(i) = SumSeq([t \in 1..Nt(z) |-> EitherFlag(i, t)])
         ELSE \A t \in 1..Nt(z) : Contribution(i, t) = EitherFlag(i, t)]_vars

\* after one radius with detrending, the result holds 1 for a node flagged
\* by both methods, 1 for a node flagged by the median analysis alone and 0
\* for a node flagged by neither
C8_Witness ==
  /\ pc = "loop" /\ iradius = 1
  /\ linear_detrend_logical /\ combine_radius_logical /\ ~combine_time_logical
  /\ \E i \in 1..Len(x) : \E t \in 1..Nt(z) :
       tmp_1[i][t] /\ tmp_2[i][t] /\ creek[i][t] = 1
  /\ \E i \in 1..Len(x) : \E t \in 1..Nt(z) :
       tmp_1[i][t] /\ ~tmp_2[i][t] /\ creek[i][t] = 1
  /\ \E i \in 1..Len(x) : \E t \in 1..Nt(z) :
       ~tmp_1[i][t] /\ ~tmp_2[i][t] /\ creek[i][t] = 0

\* pass k (from 1) of the loop flagged node id i at time step t
Flagged(k, i, t) == passes[k].tmp_1[i + 1][t] \/ passes[k].tmp_2[i + 1][t]

ConfiguredRadii == IF radius # None THEN Len(Val(radius).v) ELSE Len(Val(cloud_fn).v)

C12_FailFast ==
  [][(combine_time_logical /\ ~combine_radius_logical) =>
       /\ pc = "start" /\ pc' = "exit"
       /\ UNCHANGED <<fs, cloud, iradius, creek, tmp_1, tmp_2, passes>>
       /\ cloud = <<>> /\ creek = <<>> /\ tmp_1 = <<>> /\ tmp_2 = <<>>
       /\ passes = <<>>]_vars

\* such a call has exited although its radii and cloud files are consistent
\* and the files exist
C12_Witness ==
  /\ pc = "exit" /\ combine_time_logical /\ ~combine_radius_logical
  /\ radius # None /\ cloud_fn # None
  /\ Len(Val(radius).v) = Len(Val(cloud_fn).v)
  /\ \A k \in 1..Len(Val(cloud_fn).v) : IsFile(fs, Val(cloud_fn).v[k])
  /\ Len(x) > 0 /\ passes = <<>>

---------------------------------------------------------------------------
(* The check of radius and cloud_fn, on lists of every length *)

\* length of the longest short list of radii or of file names
MaxArgLen == 2

\* the lengths of the lists: the short ones, and the two around SmallIntMax
ArgLens == 0..MaxArgLen \cup {SmallIntMax, SmallIntMax + 1}

RadiusLists == {None, Scalar(1)} \cup {List([i \in 1..k |-> i]) : k \in ArgLens}
CloudFnLists ==
  {None, Scalar("a")} \cup
  {List([i \in 1..k |-> IF i % 2 = 1 THEN "a" ELSE "b"]) : k \in ArgLens}

\* calls on a mesh without nodes and without cloud files
OptionsInit ==
  /\ pc = "start"
  /\ longw = 8
  /\ x = <<>> /\ y = <<>> /\ z = [ndim |-> 2, m |-> 1, v |-> <<>>]
  /\ fs = [name \in FileNames |-> None]
  /\ hc \in Thresholds
  /\ radius \in RadiusLists
  /\ cloud_fn \in CloudFnLists
  /\ combine_radius_logical \in BOOLEAN
  /\ combine_time_logical \in BOOLEAN
  /\ linear_detrend_logical = FALSE
  /\ iradius = 0 /\ creek = <<>> /\ tmp_1 = <<>> /\ tmp_2 = <<>> /\ passes = <<>>
  /\ cloud = <<>> /\ tri = <<>> /\ r = 0 /\ nmax = None /\ file = <<>> /\ imported = <<>>
  /\ CurvIdle /\ LoopIdle

SpecOptions == OptionsInit /\ [][CreekNext]_vars

\* the call is rejected by the check of radius and cloud_fn as specified
Inconsistent(rad, fn) ==
  \/ rad = None /\ fn = None
  \/ rad # None /\ fn # None /\ Len(Val(AsList(rad)).v) # Len(Val(AsList(fn)).v)

(* C13: compute_boolean_creek rejects a call with a configuration error,    *)
(* before any per-node work or file access, when neither radius nor         *)
(* cloud_fn is given and, when both are given, exactly when the number of   *)
(* radii differs from the number of cloud file names (the combine options   *)
(* being valid).                                                            *)
C13_RejectsIffInconsistent ==
  [][(pc = "start" /\ ~(combine_time_logical /\ ~combine_radius_logical)) =>
       /\ pc' = "exit" <=> Inconsistent(radius, cloud_fn)
       /\ pc' = "exit" => UNCHANGED <<fs, cloud, iradius, creek, tmp_1, tmp_2, passes>>]_vars

\* the same for lists of at most SmallIntMax entries
C13_ShortLists ==
  [][(/\ pc = "start" /\ ~(combine_time_logical /\ ~combine_radius_logical)
      /\ (radius # None /\ cloud_fn # None) =>
            Len(Val(AsList(radius)).v) <= SmallIntMax) =>
       /\ pc' = "exit" <=> Inconsistent(radius, cloud_fn)
       /\ pc' = "exit" => UNCHANGED <<fs, cloud, iradius, creek, tmp_1, tmp_2, passes>>]_vars

---------------------------------------------------------------------------
(* Empty neighbourhoods *)

\* node id k is referenced by no triangle
Isolated(k) == \A t \in 1..Len(tri) : k \notin Range(tri[t])

(* C14: when the mesh has a node that is referenced by no triangle,         *)
(* compute_mini_cloud fails (ConfigurationError) and does not return an     *)
(* index in which the neighbourhood of that node is empty.                  *)
C14_IsolatedNodeRejected ==
  pc = "done" =>
    \A k \in 0..(Len(x) - 1) : ~Isolated(k) /\ cloud[k + 1] # <<>>

(* C15: when some node has zero nodes within the given radius,              *)
(* compute_mini_cloud_radius fails (ConfigurationError) and never returns   *)
(* an index with an empty neighbourhood: every returned neighbourhood has   *)
(* size >= 1.                                                               *)
C15_NonEmptyMetric ==
  pc = "done" => \A i \in 1..Len(cloud) : Len(cloud[i]) >= 1

---------------------------------------------------------------------------
(* Fits on small neighbourhoods *)

\* number of unknowns of the planar fit of the detrend pass
PlaneUnknowns == 3

(* C16: a fit is attempted only on a neighbourhood with at least as many    *)
(* nodes as unknowns: a detrend pass of compute_boolean_creek (planar fit,  *)
(* 3 unknowns) given a node whose neighbourhood has fewer than 3 ids fails  *)
(* (InsufficientNeighborsError) instead of producing a value for the node.  *)
C16_FitNeedsUnknowns ==
  (Running /\ linear_detrend_logical) =>
    \A k \in 1..Len(passes) : \A i \in 1..Len(x) :
      Len(passes[k].cloud[i]) >= PlaneUnknowns

---------------------------------------------------------------------------
(* Import of a truncated file (mini_cloud.py) *)

\* the files that end before the end of the file f
Prefixes(f) == {SubSeq(f, 1, k) : k \in 0..(Len(f) - 1)}

\* the file written for a valid index has lost its end
TruncatedInit ==
  /\ pc = "exported"
  /\ longw \in {4, 8}
  /\ cloud \in UNION {ValidIndexes(n) : n \in 0..MaxStoreNodes}
  /\ file \in Prefixes(ExportBytes(cloud, longw))
  /\ imported = <<>>
  /\ x = <<>> /\ y = <<>> /\ tri = <<>> /\ r = 0 /\ nmax = None
  /\ CreekIdle /\ CurvIdle /\ LoopIdle

TruncatedNext == Import

SpecTruncated == TruncatedInit /\ [][TruncatedNext]_vars

(* C17: import_mini_cloud on a file that is truncated (it ends before the   *)
(* announced number of neighbourhoods, or before the announced number of    *)
(* ids of a neighbourhood, has been read) reports an error                  *)
(* (MalformedStoreError) and never returns an index with missing or         *)
(* shortened neighbourhoods.                                                *)
C17_TruncatedRejected ==
  pc # "imported"

\* what is returned for a truncated file: the neighbourhoods announced are
\* all there, the last one read being cut short
C17_ShortenedReturned ==
  pc = "imported" =>
    /\ Len(imported) = Len(cloud)
    /\ \E i \in 1..Len(cloud) :
         /\ Len(imported[i]) < Len(cloud[i])
         /\ \A k \in (i + 1)..Len(cloud) : imported[k] = <<>> /\ cloud[k] = <<>>

---------------------------------------------------------------------------
(* The header of the file (mini_cloud.py) *)

(* C18: the file written by mini_cloud.export_mini_cloud starts with the    *)
(* neighbourhood count stored as a 32-bit integer (4 bytes), followed for   *)
(* each node in id order by its neighbour count and then its neighbour ids, *)
(* and import_mini_cloud reads the header with that same 32-bit width.      *)
C18_Header32 ==
  pc \in {"exported", "imported"} =>
    /\ file = ToBytes(Len(cloud), 4)
                \o Cat([i \in 1..Len(cloud) |->
                          ExportRecord(cloud[i], ExportWidth(Len(cloud)))],
                       1, Len(cloud))
    /\ HeaderWidth(longw) = 4

---------------------------------------------------------------------------
(* curvature.export_mini_cloud, curvature.import_mini_cloud *)

\* every item is written with dtype = int
CurvExportBytes(c, lw) ==
  ToBytes(Len(c), lw) \o Cat([i \in 1..Len(c) |-> ExportRecord(c[i], lw)], 1, Len(c))

\* the outcome of curvature.import_mini_cloud: ok (the call does not raise),
\* the local list cloud it has read when it ends, and the value it returns:
\* the function has no return statement
CurvImportBytes(f, lw) ==
  LET hdr == FromFile(f, 1, lw, 1)
  IN IF Len(hdr) = 0 THEN [ok |-> FALSE, cloud |-> <<>>, returned |-> None]
     ELSE LET st == ImportLoop(f, [pos |-> lw + 1, acc |-> <<>>, ok |-> TRUE], lw,
                               IF hdr[1] < 0 THEN 0 ELSE hdr[1], BlockLen * BlockLen)
          IN [ok |-> st.ok, cloud |-> st.acc, returned |-> None]

CurvInit ==
  /\ pc = "start"
  /\ longw \in {4, 8}
  /\ cloud \in UNION {ValidIndexes(n) : n \in 0..MaxStoreNodes}
  /\ file = <<>>
  /\ imported = None
  /\ x = <<>> /\ y = <<>> /\ tri = <<>> /\ r = 0 /\ nmax = None
  /\ CreekIdle /\ CurvIdle /\ LoopIdle

\* export_mini_cloud(cloud, filename)
CurvExport ==
  /\ pc = "start"
  /\ file' = CurvExportBytes(cloud, longw)
  /\ pc' = "exported"
  /\ UNCHANGED <<longw, x, y, tri, r, nmax, cloud, imported, creekVars, curvVars, loopVars>>

\* import_mini_cloud(filename): imported is None, or Some(the list returned)
CurvImport ==
  /\ pc = "exported"
  /\ imported' = CurvImportBytes(file, longw).returned
  /\ pc' = IF CurvImportBytes(file, longw).ok THEN "imported" ELSE "raised"
  /\ UNCHANGED <<longw, x, y, tri, r, nmax, cloud, file, creekVars, curvVars, loopVars>>

CurvNext == CurvExport \/ CurvImport

SpecCurvStore == CurvInit /\ [][CurvNext]_vars

(* C19: in curvature.py, import_mini_cloud applied to the file written by   *)
(* export_mini_cloud(cloud) returns a list equal to cloud, for every cloud. *)
C19_CurvRoundTrip ==
  pc \in {"imported", "raised"} => pc = "imported" /\ imported = Some(cloud)

\* the list the function has read when it ends is the exported one
C19_LocalListRead ==
  pc = "exported" =>
    /\ CurvImportBytes(file, longw).ok
    /\ CurvImportBytes(file, longw).cloud = cloud

---------------------------------------------------------------------------
(* curvature.gaussian_curvature_p1: "first and second derivatives",         *)
(* "gaussian curvature"                                                     *)

\* largest number of nodes of the grids given to gaussian_curvature_p1
MaxCurvNode == 1

\* the values of the coefficients returned by the fit
CoefValues == {-1, 2}

\* (mutant) the first derivative is taken at the origin
Fx_AtOrigin(c, xi, yi) == c[4]

\* fx = 2. * coef[0] * x[i] + coef[2] * y[i] + coef[3]
Fx(c, xi, yi) == 2 * c[1] * xi + c[3] * yi + c[4]
\* fy = 2. * coef[1] * y[i] + coef[2] * x[i] + coef[4]
Fy(c, xi, yi) == 2 * c[2] * yi + c[3] * xi + c[5]
Fxx(c) == 2 * c[1]
Fyy(c) == 2 * c[2]
Fxy(c) == c[3]

\* a ** 2.
Square(a) == a * a

\* k[i], the quotient num / den
GaussianCurvature(c, xi, yi) ==
  [num |-> Fxx(c) * Fyy(c) - Fxy(c) * Fxy(c),
   den |-> Square(1 + Fx(c, xi, yi) * Fx(c, xi, yi) + Fy(c, xi, yi) * Fy(c, xi, yi))]

CurvatureInit ==
  /\ pc = "loop"
  /\ \E n \in 0..MaxCurvNode : x \in [1..n -> Coords] /\ y \in [1..n -> Coords]
  /\ field = <<>> /\ coefs = <<>> /\ curvature = <<>>
  /\ longw = 8 /\ cloud = <<>> /\ tri = <<>> /\ r = 0 /\ nmax = None
  /\ file = <<>> /\ imported = <<>>
  /\ CreekIdle /\ LoopIdle

\* one pass of the loop "for each node": the fit of the node returns some
\* coefficients, from which k[i] is computed
CurvatureNode ==
  /\ pc = "loop"
  /\ Len(curvature) < Len(x)
  /\ \E c \in [1..6 -> CoefValues] :
       /\ coefs' = Append(coefs, c)
       /\ curvature' = Append(curvature,
                              GaussianCurvature(c, x[Len(curvature) + 1],
                                                y[Len(curvature) + 1]))
  /\ UNCHANGED <<pc, longw, x, y, tri, r, nmax, cloud, file, imported, creekVars, field, loopVars>>

\* "return gaussian curvature"
CurvatureReturn ==
  /\ pc = "loop"
  /\ Len(curvature) = Len(x)
  /\ pc' = "done"
  /\ UNCHANGED <<longw, x, y, tri, r, nmax, cloud, file, imported, creekVars, curvVars, loopVars>>

CurvatureNext == CurvatureNode \/ CurvatureReturn

SpecCurvature == CurvatureInit /\ [][CurvatureNext]_vars

(* C20: given the quadratic coefficients (a, b, c, d, e, _) fitted for node *)
(* i, gaussian_curvature_p1 returns for node i the value                    *)
(* (fxx*fyy - fxy^2) / (1 + fx^2 + fy^2)^2 with fx = 2a*x_i + c*y_i + d,    *)
(* fy = 2b*y_i + c*x_i + e, fxx = 2a, fyy = 2b, fxy = c, the derivatives    *)
(* being evaluated at the coordinates of node i.                            *)
C20_CurvatureFormula ==
  pc = "done" =>
    /\ Len(curvature) = Len(x)
    /\ \A i \in 1..Len(x) :
         LET a == coefs[i][1]
             b == coefs[i][2]
             c == coefs[i][3]
             d == coefs[i][4]
             e == coefs[i][5]
             fx == 2 * a * x[i] + c * y[i] + d
             fy == 2 * b * y[i] + c * x[i] + e
         IN /\ curvature[i].den > 0
            /\ curvature[i].num * (1 + fx * fx + fy * fy) * (1 + fx * fx + fy * fy)
                 = (2 * a * 2 * b - c * c) * curvature[i].den

\* the curvature returned for a node at (1, 0) with a = 2, b = -1, c = 2,
\* d = -1, e = 2: fx = 3, fy = 4, k = -12 / 676
C20_Witness ==
  /\ pc = "done"
  /\ x = <<1>> /\ y = <<0>>
  /\ coefs = <<(<<2, -1, 2, -1, 2, 2>>)>>
  /\ curvature = <<[num |-> -12, den |-> 676]>>

---------------------------------------------------------------------------
(* gaussian_curvature_p1 on a field that is constant or linear in (x, y) *)

\* largest slope and offset of the linear fields
MaxSlope == 1

\* largest number of nodes of a mini-cloud for which the fit is computed
\* (the vertices of one triangle)
MaxFit == 3

\* curvature.compute_mini_cloud: the loops of mini_cloud.compute_mini_cloud,
\* the mini-clouds being returned as lists
CurvComputeMiniCloud(xx, yy, tt) == AddTriangles([i \in 1..Len(xx) |-> <<>>], tt, 1)

\* "build linear system": the row of node id j, and the rows of mini-cloud c
\* (rows of zeros complete the system to MaxFit rows; they change neither
\* the least-squares solutions nor their norms)
QuadraticRow(xx, yy, j) ==
  <<xx[j + 1] * xx[j + 1], yy[j + 1] * yy[j + 1], xx[j + 1] * yy[j + 1],
    xx[j + 1], yy[j + 1], 1>>
SystemRow(xx, yy, c, k) ==
  IF k <= Len(c) THEN QuadraticRow(xx, yy, c[k]) ELSE <<0, 0, 0, 0, 0, 0>>
QuadraticSystem(xx, yy, c) ==
  <<SystemRow(xx, yy, c, 1), SystemRow(xx, yy, c, 2), SystemRow(xx, yy, c, 3)>>
\* b[:] = fcloud
SystemValue(ff, c, k) == IF k <= Len(c) THEN ff[c[k] + 1] ELSE 0
SystemValues(ff, c) == <<SystemValue(ff, c, 1), SystemValue(ff, c, 2), SystemValue(ff, c, 3)>>

Inner(u, w) ==
  u[1] * w[1] + u[2] * w[2] + u[3] * w[3] + u[4] * w[4] + u[5] * w[5] + u[6] * w[6]
\* a a^T
RowGram(a) ==
  <<(<<Inner(a[1], a[1]), Inner(a[1], a[2]), Inner(a[1], a[3])>>),
    (<<Inner(a[2], a[1]), Inner(a[2], a[2]), Inner(a[2], a[3])>>),
    (<<Inner(a[3], a[1]), Inner(a[3], a[2]), Inner(a[3], a[3])>>)>>
\* a^T l
Combination(a, l) ==
  <<l[1] * a[1][1] + l[2] * a[2][1] + l[3] * a[3][1],
    l[1] * a[1][2] + l[2] * a[2][2] + l[3] * a[3][2],
    l[1] * a[1][3] + l[2] * a[2][3] + l[3] * a[3][3],
    l[1] * a[1][4] + l[2] * a[2][4] + l[3] * a[3][4],
    l[1] * a[1][5] + l[2] * a[2][5] + l[3] * a[3][5],
    l[1] * a[1][6] + l[2] * a[2][6] + l[3] * a[3][6]>>

Abs(a) == IF a < 0 THEN -a ELSE a
RECURSIVE Gcd(_, _)
Gcd(a, b) == IF b = 0 THEN Abs(a) ELSE Gcd(b, a % Abs(b))
\* the quotient num / den in lowest terms
Lowest(num, den) ==
  LET g == Gcd(Gcd(Gcd(num[1], num[2]), Gcd(num[3], num[4])),
               Gcd(Gcd(num[5], num[6]), den))
  IN [num |-> <<num[1] \div g, num[2] \div g, num[3] \div g,
                num[4] \div g, num[5] \div g, num[6] \div g>>,
      den |-> den \div g]

\* scipy.linalg.lstsq(a, b, lapack_driver = 'gelsy') for the 6 unknowns: the
\* least-squares solution of minimum norm a^T (a a^T)^+ b, coef = num / den,
\* in exact arithmetic
QuadraticLstsqOf(a, pinv, b) == Lowest(Combination(a, MatVec(pinv.num, b)), pinv.den)
QuadraticLstsq(a, b) == QuadraticLstsqOf(a, PseudoInverse(RowGram(a)), b)

\* k[i] for the coefficients coef = c.num / c.den, the quotient num / den
Curvature(c, xi, yi) ==
  [num |-> (Fxx(c.num) * Fyy(c.num) - Fxy(c.num) * Fxy(c.num)) * c.den * c.den,
   den |-> Square(c.den * c.den + Fx(c.num, xi, yi) * Fx(c.num, xi, yi)
                    + Fy(c.num, xi, yi) * Fy(c.num, xi, yi))]

\* the fields p x + q y + s
Slopes == 0..MaxSlope
LinearField(xx, yy, p, q, s) == [i \in 1..Len(xx) |-> p * xx[i] + q * yy[i] + s]

\* the meshes of one triangle: every node is a vertex of the triangle
FlatInit ==
  /\ pc = "start"
  /\ \E n \in 1..MaxFit :
       /\ x \in [1..n -> Coords] /\ y \in [1..n -> Coords]
       /\ \E t \in Triangles(n) : Range(t) = 0..(n - 1) /\ tri = <<t>>
  /\ \E p, q, s \in Slopes : field = LinearField(x, y, p, q, s)
  /\ coefs = <<>> /\ curvature = <<>>
  /\ longw = 8 /\ cloud = <<>> /\ r = 0 /\ nmax = None
  /\ file = <<>> /\ imported = <<>>
  /\ CreekIdle /\ LoopIdle

\* "compute mini-clouds": cloud is None
FlatClouds ==
  /\ pc = "start"
  /\ cloud' = CurvComputeMiniCloud(x, y, tri)
  /\ pc' = "loop"
  /\ UNCHANGED <<longw, x, y, tri, r, nmax, file, imported, creekVars, curvVars, loopVars>>

\* one pass of the loop "for each node", the fit being computed
FlatNode ==
  /\ pc = "loop"
  /\ Len(curvature) < Len(x)
  /\ \E i \in {Len(curvature) + 1} :
       \E c \in {QuadraticLstsq(QuadraticSystem(x, y, cloud[i]),
                                SystemValues(field, cloud[i]))} :
         /\ coefs' = Append(coefs, c)
         /\ curvature' = Append(curvature, Curvature(c, x[i], y[i]))
  /\ UNCHANGED <<pc, longw, x, y, tri, r, nmax, cloud, file, imported, creekVars, field, loopVars>>

FlatNext == FlatClouds \/ FlatNode \/ CurvatureReturn

SpecFlat == FlatInit /\ [][FlatNext]_vars

\* the fitted quadratic takes at node id j the value num / den
FitAt(c, xx, yy, j) == Inner(c.num, QuadraticRow(xx, yy, j))

(* C21: for every mesh and every field that is constant or linear in        *)
(* (x, y), gaussian_curvature_p1 returns exactly 0 at every node, including *)
(* the nodes whose mini-cloud has fewer than 6 ids or collinear points.     *)
C21_FlatIsZero ==
  pc = "done" => \A i \in 1..Len(x) : curvature[i].num = 0

\* the fit of every node is a solution of its system: the fitted quadratic
\* takes the field values at the nodes of the mini-cloud
C21_FitInterpolates ==
  \A i \in 1..Len(coefs) : \A k \in 1..Len(cloud[i]) :
    FitAt(coefs[i], x, y, cloud[i][k]) = field[cloud[i][k] + 1] * coefs[i].den

---------------------------------------------------------------------------
(* The integer type of the records (mini_cloud.py) *)

\* the integer type of the records of a file announcing n mini-clouds, in bytes
WidthRule(n) ==
  IF n <= 127 THEN 1 ELSE IF n <= 32767 THEN 2 ELSE IF n <= 2147483647 THEN 4 ELSE 8

\* the integers of the records of the list cl, in file order: for each
\* mini-cloud its number of nodes, then its node ids
Items(cl) == Cat([i \in 1..Len(cl) |-> <<Len(cl[i])>> \o cl[i]], 1, Len(cl))

\* the k-th integer of width w after a header of h bytes
ItemAt(fl, h, w, k) == FromBytes(SubSeq(fl, h + (k - 1) * w + 1, h + k * w))

(* C22: export_mini_cloud and import_mini_cloud select the width of the     *)
(* records from the number of mini-clouds by the same rule (8 bits up to    *)
(* 127, 16 bits up to 32767, 32 bits up to 2^31 - 1, else 64 bits), chosen  *)
(* once per file and used for every per-node count and every node id: the   *)
(* reader's width equals the writer's, and the reader returns exactly as    *)
(* many lists as the header announces.                                      *)
C22_OneWidth ==
  pc \in {"exported", "imported", "raised"} =>
    \E w \in {WidthRule(Len(cloud))} : \E items \in {Items(cloud)} :
      /\ ExportWidth(Len(cloud)) = w
      /\ ImportWidth(FromBytes(SubSeq(file, 1, longw))) = w
      /\ Len(file) = longw + w * Len(items)
      /\ \A k \in 1..Len(items) : ItemAt(file, longw, w, k) = items[k]
      /\ pc # "raised"
      /\ pc = "imported" =>
           /\ Len(imported) = FromBytes(SubSeq(file, 1, longw))
           /\ Items(imported) = items

\* a file of 127 mini-clouds (the last count written with 8-bit integers),
\* each holding the 127 ids, read back: a header of 8 bytes and 127 * 128
\* integers of one byte
C22_Witness ==
  /\ pc = "imported"
  /\ longw = 8
  /\ Len(cloud) = Int8Max
  /\ Len(file) = 8 + Int8Max * (Int8Max + 1)
  /\ Len(imported) = Int8Max

---------------------------------------------------------------------------
(* The passes that have to compute their mini-clouds (boolean_creek.py) *)

\* pass i (from 0) has to compute its mini-clouds: a list of radii is given
\* and no file name is, or the file named for the pass does not exist
MustCompute(i) ==
  /\ radius # None
  /\ cloud_fn = None \/ ~IsFile(fs, Val(cloud_fn).v[i + 1])

(* C23: when a list of radii is given and the mini-clouds of pass i have to *)
(* be computed (no file name given, or the file does not exist), they are   *)
(* the metric mini-clouds of radius[i], and the call goes on to a result    *)
(* for each radius.                                                         *)
C23_ComputedPerRadius ==
  /\ pc = "raised" => ~MustCompute(iradius)
  /\ \A k \in 1..Len(passes) :
       MustCompute(k - 1) =>
         passes[k].cloud \in ComputeMiniCloudRadius(x, y, Val(radius).v[k], None)

\* no pass that has to compute its mini-clouds completes
C23_NeverComputed == \A k \in 1..Len(passes) : ~MustCompute(k - 1)

---------------------------------------------------------------------------
(* The detrended median (boolean_creek.py) *)

\* den * (z[j, t] - trend(j)) for the nodes j of mini-cloud c, the trend
\* being the plane coef = num / den
DetrendedValues(xx, yy, zz, c, coef, t) ==
  [k \in 1..Len(c) |->
     coef.den * zz.v[c[k] + 1][t] - Trend(coef, xx[c[k] + 1], yy[c[k] + 1]).num]

\* median({z[j, t] - trend(j) : j in N(i)}) - z[i, t] for node id i, the
\* trend being the plane fitted over the mini-cloud c of i
PlaneResidual(xx, yy, zz, c, coef, i, t) ==
  Residual(NpMedian(DetrendedValues(xx, yy, zz, c, coef, t)),
           [den |-> coef.den, fit |-> TRUE], zz.v[i + 1][t])
DetrendedResidual(xx, yy, zz, c, i, t) ==
  PlaneResidual(xx, yy, zz, c, Lstsq(LinearSystem(xx, yy, c), ZCloud(zz, c, t)), i, t)

(* C24: in detrend mode, for every node i and time step t, the detrend flag *)
(* of node i is (median({z[j,t] - trend(j) : j in N(i)}) - z[i,t] > hc),    *)
(* the trend being the plane fitted by least squares over N(i); for every   *)
(* node, not only for the node processed last.                              *)
C24_DetrendedMedian ==
  linear_detrend_logical =>
    \A k \in 1..Len(passes) : \A i \in 1..Len(x) : \A t \in 1..Nt(z) :
      passes[k].tmp_2[i][t]
        \in Greater(DetrendedResidual(x, y, z, passes[k].cloud[i], i - 1, t), hc)

\* the detrend flag of every node but the last is the flag of the median
\* analysis: its zl is 0 when the detrended median is taken
C24_OnlyLastDetrended ==
  linear_detrend_logical =>
    \A k \in 1..Len(passes) : \A i \in 1..(Len(x) - 1) :
      passes[k].tmp_2[i] = passes[k].tmp_1[i]

---------------------------------------------------------------------------
(* The loops over the nodes of one pass of compute_boolean_creek, one node  *)
(* at a time (boolean_creek.py)                                             *)

\* an entry of median: the value twice / (2 * den), or nan; fit tells that
\* the value comes from a fit computed in floating point
MedianZero == [nan |-> FALSE, twice |-> 0, den |-> 1, fit |-> FALSE]
\* an entry of zl: the value num / den
TrendZero == [num |-> 0, den |-> 1, fit |-> FALSE]

\* np.zeros(z.shape)
ZerosLike(zz, e) == [j \in 1..Len(zz.v) |-> [t \in 1..Nt(zz) |-> e]]

\* np.median(z[cloud[j]], axis = 0)
MedianRow(zz, c) ==
  [t \in 1..Nt(zz) |->
     [nan |-> NpMedian(ZCloud(zz, c, t)).nan, twice |-> NpMedian(ZCloud(zz, c, t)).twice,
      den |-> 1, fit |-> FALSE]]

\* coef[0, :] * x[j] + coef[1, :] * y[j] + coef[2, :], coef being the fit
\* over mini-cloud c
TrendRow(xx, yy, zz, c, xj, yj) ==
  [t \in 1..Nt(zz) |-> Trend(Lstsq(LinearSystem(xx, yy, c), ZCloud(zz, c, t)), xj, yj)]

\* np.median(z[cloud[j]] - zl[j], axis = 0)
DetrendedEntry(c, trend) ==
  [nan |-> NpMedian([k \in 1..Len(c) |-> trend.den * c[k] - trend.num]).nan,
   twice |-> NpMedian([k \in 1..Len(c) |-> trend.den * c[k] - trend.num]).twice,
   den |-> trend.den, fit |-> trend.fit]
DetrendedRow(zz, c, trends) ==
  [t \in 1..Nt(zz) |-> DetrendedEntry(ZCloud(zz, c, t), trends[t])]

\* the fields of shape (n, m)
Fields2D(n) == {zz \in Fields(n) : zz.ndim = 2}

\* the pass reaches "compute median" with the mini-clouds it has imported
LoopInit ==
  /\ pc = "median"
  /\ longw = 8
  /\ \E n \in 0..MaxCells :
       /\ x = [k \in 1..n |-> MeshX(k - 1)]
       /\ y = [k \in 1..n |-> MeshY(k - 1)]
       /\ z \in Fields2D(n)
  /\ cloud \in {MetricCloud(x, y, rr) : rr \in 0..MaxRadii}
  /\ hc \in Thresholds
  /\ linear_detrend_logical \in BOOLEAN
  /\ median = ZerosLike(z, MedianZero) /\ zl = <<>> /\ jnode = 0
  /\ radius = <<>> /\ cloud_fn = <<>>
  /\ combine_radius_logical = TRUE /\ combine_time_logical = FALSE
  /\ fs = <<>> /\ iradius = 0 /\ creek = <<>> /\ tmp_1 = <<>> /\ tmp_2 = <<>>
  /\ passes = <<>>
  /\ tri = <<>> /\ r = 0 /\ nmax = None /\ file = <<>> /\ imported = <<>>
  /\ CurvIdle

\* median[j, :] = np.median(z[cloud[j]], axis = 0)
MedianNode ==
  /\ pc = "median"
  /\ jnode < Len(x)
  /\ median' = [median EXCEPT ![jnode + 1] = MedianRow(z, cloud[jnode + 1])]
  /\ jnode' = jnode + 1
  /\ UNCHANGED <<pc, longw, x, y, tri, r, nmax, cloud, file, imported, creekVars,
                 curvVars, zl>>

\* "compute residual", "compute boolean creek", and the test of
\* linear_detrend_logical
MedianDone ==
  /\ pc = "median"
  /\ jnode = Len(x)
  /\ tmp_1' = [j \in 1..Len(x) |->
                 [t \in 1..Nt(z) |-> ResGreater(median[j][t], z.v[j][t], hc)]]
  /\ IF linear_detrend_logical
     THEN pc' = "fit" /\ tmp_2' = tmp_2
     ELSE pc' = "done" /\ tmp_2' = ZerosLike(z, FALSE)
  /\ jnode' = 0
  /\ UNCHANGED <<longw, x, y, tri, r, nmax, cloud, file, imported, z, hc, radius,
                 cloud_fn, combine_radius_logical, combine_time_logical,
                 linear_detrend_logical, fs, iradius, creek, passes, curvVars,
                 median, zl>>

\* one pass of the loop "for each mini-cloud": zl = np.zeros(z.shape), the
\* fit, and zl[j, :]; b[:] = zcloud raises when nt is 1 and the arrays have
\* the shapes (ncloud) and (ncloud, 1) with ncloud other than 1
FitNode ==
  /\ pc = "fit"
  /\ jnode < Len(x)
  /\ IF Nt(z) = 1 /\ Len(cloud[jnode + 1]) # 1
     THEN /\ pc' = "raised"
          /\ zl' = ZerosLike(z, TrendZero)
          /\ jnode' = jnode
     ELSE /\ pc' = pc
          /\ zl' = [ZerosLike(z, TrendZero) EXCEPT
                      ![jnode + 1] = TrendRow(x, y, z, cloud[jnode + 1],
                                              x[jnode + 1], y[jnode + 1])]
          /\ jnode' = jnode + 1
  /\ UNCHANGED <<longw, x, y, tri, r, nmax, cloud, file, imported, creekVars,
                 curvVars, median>>

\* "compute median": median = np.zeros(z.shape)
FitDone ==
  /\ pc = "fit"
  /\ jnode = Len(x)
  /\ median' = ZerosLike(z, MedianZero)
  /\ pc' = "detrended"
  /\ jnode' = 0
  /\ UNCHANGED <<longw, x, y, tri, r, nmax, cloud, file, imported, creekVars,
                 curvVars, zl>>

\* median[j, :] = np.median(z[cloud[j]] - zl[j], axis = 0)
DetrendedNode ==
  /\ pc = "detrended"
  /\ jnode < Len(x)
  /\ median' = [median EXCEPT
                  ![jnode + 1] = DetrendedRow(z, cloud[jnode + 1], zl[jnode + 1])]
  /\ jnode' = jnode + 1
  /\ UNCHANGED <<pc, longw, x, y, tri, r, nmax, cloud, file, imported, creekVars,
                 curvVars, zl>>

\* "compute residual", "compute boolean creek": tmp_2 = (res > hc)
DetrendedDone ==
  /\ pc = "detrended"
  /\ jnode = Len(x)
  /\ tmp_2' \in {a \in [1..Len(x) -> [1..Nt(z) -> BOOLEAN]] :
                   \A j \in 1..Len(x) : \A t \in 1..Nt(z) :
                     a[j][t] \in Greater(Residual(median[j][t], median[j][t],
                                                  z.v[j][t]), hc)}
  /\ pc' = "done"
  /\ UNCHANGED <<longw, x, y, tri, r, nmax, cloud, file, imported, z, hc, radius,
                 cloud_fn, combine_radius_logical, combine_time_logical,
                 linear_detrend_logical, fs, iradius, creek, tmp_1, passes,
                 curvVars, loopVars>>

LoopNext ==
  MedianNode \/ MedianDone \/ FitNode \/ FitDone \/ DetrendedNode \/ DetrendedDone

SpecLoops == LoopInit /\ [][LoopNext]_vars

\* the step processes node id jnode in one of the loops over the nodes
ProcessesNode == jnode' = jnode + 1

\* the entries of the array a (a2 after the step) other than that of node id
\* j are unchanged; an array the step defines has no entry before it
OthersUnchanged(a, a2, j) ==
  a # <<>> => \A i \in 1..Len(a) : i # j + 1 => a2[i] = a[i]

(* C25: in every loop over the nodes of compute_boolean_creek (median, fit  *)
(* of the trend, detrended median), processing node j writes only entry j   *)
(* of the arrays and leaves the entries of every other node unchanged.      *)
C25_OwnEntryOnly ==
  [][ProcessesNode =>
       OthersUnchanged(median, median', jnode) /\ OthersUnchanged(zl, zl', jnode)]_vars

\* the two loops that compute a median write the entry of their node only
C25_MedianLoops ==
  [][ProcessesNode => OthersUnchanged(median, median', jnode)]_vars

\* the flags the loops end with are those of the pass taken as one step
C25_SamePass ==
  pc = "done" =>
    /\ tmp_1 = Tmp1(z, cloud, hc)
    /\ tmp_2 \in Tmp2(x, y, z, cloud, hc, linear_detrend_logical)

---------------------------------------------------------------------------
(* The two builders of mini-clouds (mini_cloud.py) *)

\* nodes in a row, one unit apart, with a radius and a cap: up to 2 r + 1
\* nodes lie within the radius of a node
RowInit ==
  /\ pc = "start"
  /\ \E n \in 0..MaxNode :
       /\ x = [i \in 1..n |-> i - 1]
       /\ y = [i \in 1..n |-> 0]
  /\ r \in Radii
  /\ nmax \in Caps
  /\ cloud = <<>>
  /\ longw = 8 /\ tri = <<>> /\ file = <<>> /\ imported = <<>>
  /\ CreekIdle /\ CurvIdle /\ LoopIdle

\* a call of either builder: compute_mini_cloud on a mesh, or
\* compute_mini_cloud_radius on the nodes in a row
BuildersInit == TopoInit \/ RowInit

BuildersNext == TopoCall \/ RadiusCall

SpecBuilders == BuildersInit /\ [][BuildersNext]_vars

\* the random selection is made for node id i: a cap is given and more ids
\* than the cap lie within the radius
Subsampled(i) == nmax # None /\ Cardinality(ExactSet(x, y, i, r)) > Val(nmax)

(* C26 as stated: no mini-cloud returned by either builder contains the     *)
(* same node id twice, for compute_mini_cloud on every mesh and for         *)
(* compute_mini_cloud_radius with and without the cap nmax.                 *)
C26_NoDuplicate ==
  pc = "done" => \A i \in 1..Len(cloud) : NoDup(cloud[i])

(* C26 amended: no mini-cloud returned by compute_mini_cloud contains the   *)
(* same node id twice, and none returned by compute_mini_cloud_radius does  *)
(* unless the cap made the random selection for that node (the selection is *)
(* drawn with replacement and may repeat an id).                            *)
C26_NoDuplicateUnlessSubsampled ==
  pc = "done" => \A i \in 1..Len(cloud) : NoDup(cloud[i]) \/ Subsampled(i - 1)

\* a mesh whose first triangle repeats a vertex and whose two triangles
\* share nodes 0 and 1: every id is once in the mini-cloud of node 0
C26_Witness ==
  /\ pc = "done"
  /\ tri = <<(<<0, 0, 1>>), (<<0, 1, 2>>)>>
  /\ cloud[1] = <<0, 1, 2>>

\* three nodes within the radius of node 1 and a cap of 2: the selection
\* drew node 2 twice
C26_Repeated ==
  /\ pc = "done"
  /\ Len(x) = 3 /\ r = 1 /\ nmax = Some(2)
  /\ cloud[2] = <<2, 2>>

---------------------------------------------------------------------------
(* The node itself in its metric mini-cloud (mini_cloud.py) *)

(* C27 as stated: for every radius r >= 0 and every node i, the mini-cloud  *)
(* of i returned by compute_mini_cloud_radius contains i itself, both when  *)
(* no cap is given and when the cap nmax causes a random selection.         *)
C27_Self ==
  (pc = "done" /\ r >= 0) =>
    \A i \in 0..(Len(x) - 1) : i \in Range(cloud[i + 1])

(* C27 amended: for every radius r >= 0 and every node i, the mini-cloud of *)
(* i returned by compute_mini_cloud_radius contains i itself when no cap is *)
(* given or when at most nmax ids lie within the radius; a random selection *)
(* may leave i out.                                                         *)
C27_SelfUnlessSubsampled ==
  (pc = "done" /\ r >= 0) =>
    \A i \in 0..(Len(x) - 1) : Subsampled(i) \/ i \in Range(cloud[i + 1])

\* a call with a cap of 2 and two nodes within the radius of each other: no
\* selection is made and each node is in its own mini-cloud
C27_Witness ==
  /\ pc = "done" /\ nmax = Some(2) /\ r = 1
  /\ x = <<0, 1>> /\ y = <<0, 0>>
  /\ cloud = <<(<<0, 1>>), (<<0, 1>>)>>

\* with a cap of 1 the selection kept node 0 for node 1, and left node 1 out
C27_LeftOut ==
  /\ pc = "done" /\ nmax = Some(1) /\ r = 1
  /\ x = <<0, 1>> /\ y = <<0, 0>>
  /\ cloud[2] = <<0>>

---------------------------------------------------------------------------
(* The files of mini-clouds as a cache (boolean_creek.py) *)

\* radius and cloud_fn are both given
BothGiven == radius # None /\ cloud_fn # None

\* the file named for pass i (from 0)
PassFile(i) == Val(cloud_fn).v[i + 1]

\* pass k imported its mini-clouds from the file named for it, as it was
\* when the call started
ImportedFromFile(k) ==
  /\ IsFile(fs, PassFile(k - 1))
  /\ passes[k].cloud = ImportBytes(Val(fs[PassFile(k - 1)]), longw).cloud

(* C28: when both radius and cloud_fn are given, a pass whose file exists   *)
(* imports it and neither recomputes nor overwrites it, and a pass whose    *)
(* file does not exist computes the mini-clouds and exports them to that    *)
(* file, so that a later call imports them and returns the same result.     *)
C28_StoreCaching ==
  BothGiven =>
    /\ \A k \in 1..Len(passes) :
         IsFile(fs, PassFile(k - 1)) => ImportedFromFile(k)
    /\ pc = "raised" => IsFile(fs, PassFile(iradius))

\* every pass completed with both arguments given found its file and
\* imported it; no step changes a file
C28_ExistingImported ==
  BothGiven => \A k \in 1..Len(passes) : ImportedFromFile(k)
C28_FilesKept == [][fs' = fs]_vars

---------------------------------------------------------------------------
(* A field of a single time step given as an array of shape (n) *)

(* C29: compute_boolean_creek accepts a field given as an array of shape    *)
(* (n) (z.ndim == 1, nt = 1): every pass that gets its mini-clouds          *)
(* completes, and with the combination in radius and without the            *)
(* combination in time the call returns a mask of shape (n).                *)
C29_OneDimensional ==
  (z.ndim = 1 /\ combine_radius_logical /\ ~combine_time_logical) =>
    /\ pc = "raised" => ~CloudSource(radius, cloud_fn, fs, iradius, longw).ok
    /\ pc = "done" => Len(creek) = Len(x)

\* no pass completes on a field of shape (n) with n > 0
C29_NoPass == (z.ndim = 1 /\ Len(x) > 0) => passes = <<>>

---------------------------------------------------------------------------
(* The order of the triangles and of their vertices (mini_cloud.py) *)

\* a triangle with its vertices in increasing order, as a number in base n
\* (n > 0 nodes), and back
Max(a, b) == IF a > b THEN a ELSE b
KeyOf(lo, hi, sum, n) == (lo * n + (sum - lo - hi)) * n + hi
TriangleKey(t, n) ==
  KeyOf(Min(t[1], Min(t[2], t[3])), Max(t[1], Max(t[2], t[3])), t[1] + t[2] + t[3], n)
KeyTriangle(key, n) == <<key \div (n * n), (key \div n) % n, key % n>>

\* the connectivity table tt in its canonical order: the vertices of every
\* triangle in increasing order, and the triangles in increasing order; the
\* tables obtained from tt by permuting its triangles and the vertices of
\* each triangle are the tables that have the same canonical order
RECURSIVE SortedKeys(_, _)
SortedKeys(tt, n) ==
  IF tt = <<>> THEN <<>> ELSE Insert(SortedKeys(Tail(tt), n), TriangleKey(Head(tt), n))
RECURSIVE KeyTriangles(_, _)
KeyTriangles(keys, n) ==
  IF keys = <<>> THEN <<>>
  ELSE <<KeyTriangle(Head(keys), n)>> \o KeyTriangles(Tail(keys), n)
Canonical(tt, n) == KeyTriangles(SortedKeys(tt, n), n)

SameSets(c1, c2) ==
  Len(c1) = Len(c2) /\ \A k \in 1..Len(c1) : Range(c1[k]) = Range(c2[k])

(* C30: the neighbour sets compute_mini_cloud returns do not depend on the  *)
(* order of the triangles nor on the order of the three vertices inside a   *)
(* triangle (all the tables that are permutations of one another yield the  *)
(* sets their common canonical order yields), and the relation is           *)
(* symmetric: j is in the mini-cloud of k if and only if k is in the        *)
(* mini-cloud of j.                                                         *)
C30_OrderAndSymmetry ==
  pc = "done" =>
    /\ SameSets(ComputeMiniCloud(x, y, Canonical(tri, Len(x))), cloud)
    /\ \A k \in 0..(Len(x) - 1) : \A j \in Range(cloud[k + 1]) :
         k \in Range(cloud[j + 1])

\* a mesh of two triangles that share node 1, the triangle of nodes 1 and 2
\* first: node 1 has got its neighbours in the order 1, 2, 0
C30_Witness ==
  /\ pc = "done"
  /\ tri = <<(<<1, 2, 2>>), (<<0, 1, 1>>)>>
  /\ cloud = <<(<<0, 1>>), (<<1, 2, 0>>), (<<1, 2>>)>>

===========================================================================
